---- MODULE Spec2Model ----
(***************************************************************************)
(* A model of classifier.ipynb: the directory-walk dataset loader          *)
(* (load_data), the label lookup of predict_3d_model, the checkpoint       *)
(* save/load helpers and the train/validation loop of train_model.         *)
(*                                                                         *)
(* Spec      : load_data over a directory tree, then the model is built    *)
(*             with num_classes = len(label_map) and predict_3d_model is   *)
(*             called.                                                     *)
(* SpecTrain : save_checkpoint / load_checkpoint / train_model over a      *)
(*             checkpoint directory.                                       *)
(***************************************************************************)
EXTENDS Integers, Sequences, FiniteSets, TLC

\* ---------------------------------------------------------------- bounds
\* Entry names of root_dir are 1..MaxCat (ShapeNet synset ids are numeric
\* strings, so sorted() orders them as numbers); the entries of a category
\* directory are 1..MaxModels.
MaxCat == 3

MaxModels == 1

\* train_model runs at most MaxEpochs epochs over loaders of at most
\* MaxBatches batches; a validation batch's loss is 0..MaxLoss; the notebook
\* runs at most MaxCalls cells.
MaxEpochs == 2

MaxBatches == 2

MaxLoss == 2

MaxCalls == 2

Names == 1..MaxCat

Models == 1..MaxModels

VARIABLES
    \* the directory tree under root_dir
    fs_root,        \* entry name -> "absent" | "file" | "dir"
    fs_cat,         \* category -> entry -> "absent" | "other" | "model"
    \* load_data / predict cell
    pc,
    listing,        \* sorted(os.listdir(root_dir))
    pos,            \* position of the outer loop in listing (idx = pos - 1)
    pending,        \* entries of os.listdir(dir_path) not yet visited
    file_paths,
    labels,
    label_map,
    num_classes,
    predicted_idx,
    exc,            \* which step of the try block raised ("none" if none)
    ret,            \* return value of predict_3d_model
    propagated,     \* TRUE when an exception left predict_3d_model
    \* the ./checkpoints directory
    ckpt_dir,       \* TRUE when ./checkpoints exists
    files,          \* file name in ./checkpoints -> serialized record | NoFile
    nwrites,        \* number of torch.save calls so far
    saved,          \* file name -> the state last handed to save_checkpoint
    \* the model and the optimizer
    params,         \* model.state_dict()
    training,       \* model.training (TRUE after train(), FALSE after eval())
    grads,          \* "unset" | "cleared" | "computed"
    optimizer,      \* optimizer.state_dict()
    \* the notebook cell being run and train_model's locals
    tpc,
    calls,          \* cells run so far
    num_epochs,
    save_path,
    n_train,        \* len(train_loader)
    n_val,          \* len(val_loader)
    epoch,
    batch,
    ops,            \* the library calls made for the current training batch
    total_val_loss,
    best_val_loss,
    val_log,        \* the validation losses printed by line 230, one per epoch
    \* load_checkpoint
    filepath,
    checkpoint,     \* its return value
    printed         \* the last line it printed

dataVars == <<fs_root, fs_cat, pc, listing, pos, pending, file_paths, labels,
              label_map, num_classes, predicted_idx, exc, ret, propagated>>

trainVars == <<ckpt_dir, files, nwrites, saved, params, training, grads,
               optimizer, tpc, calls, num_epochs, save_path, n_train, n_val,
               epoch, batch, ops, total_val_loss, best_val_loss, val_log, filepath,
               checkpoint, printed>>

vars == <<dataVars, trainVars>>

\* ------------------------------------------------------------- helpers
None == <<>>

Some(v) == <<v>>

SetMin(S) == CHOOSE x \in S : \A y \in S : x <= y

RECURSIVE sorted(_)
sorted(S) == IF S = {} THEN <<>>
             ELSE LET m == SetMin(S) IN <<m>> \o sorted(S \ {m})

Range(s) == {s[i] : i \in 1..Len(s)}

\* os.listdir(root_dir): the names of all entries, directories or not
listdir_root == {n \in Names : fs_root[n] # "absent"}

\* os.listdir(dir_path)
listdir(directory) == {m \in Models : fs_cat[directory][m] # "absent"}

isdir_any(directory) == fs_root[directory] # "absent"

\* os.path.isdir(os.path.join(root_dir, directory))
isdir(directory) == fs_root[directory] = "dir"

\* os.path.join(dir_path, models, 'models/model_normalized.obj'): the path
\* <root>/<directory>/<models>/models/model_normalized.obj, kept as the pair
\* of its two variable components
join(directory, models) == <<directory, models>>

isfile_any(path) == fs_root[path[1]] = "dir" /\ fs_cat[path[1]][path[2]] # "absent"

\* os.path.isfile(model_directory)
isfile(path) == fs_root[path[1]] = "dir" /\ fs_cat[path[1]][path[2]] = "model"

\* the directory trees: only a directory has entries
Trees == {t \in [root : [Names -> {"absent", "file", "dir"}],
                 cat : [Names -> [Models -> {"absent", "other", "model"}]]] :
            \A n \in Names : t.root[n] # "dir" =>
                \A m \in Models : t.cat[n][m] = "absent"}

\* the state before load_data runs over a directory tree
InitDataVars(root, cat) ==
    /\ fs_root = root
    /\ fs_cat = cat
    /\ pc = "idle"
    /\ listing = <<>>
    /\ pos = 1
    /\ pending = {}
    /\ file_paths = <<>>
    /\ labels = <<>>
    /\ label_map = <<>>
    /\ num_classes = 0
    /\ predicted_idx = 0
    /\ exc = "none"
    /\ ret = None
    /\ propagated = FALSE

\* ------------------------------------------------------------ load_data
\* lines 104-107: the empty results and the sorted listing
LoadDataCall ==
    /\ pc = "idle"
    /\ listing' = sorted(listdir_root)
    /\ pos' = 1
    /\ pending' = {}
    /\ file_paths' = <<>>
    /\ labels' = <<>>
    /\ label_map' = <<>>
    /\ pc' = "outer"
    /\ UNCHANGED <<fs_root, fs_cat, num_classes, predicted_idx, exc, ret, propagated>>
    /\ UNCHANGED trainVars

\* idx of enumerate(sorted(os.listdir(root_dir))) at position pos
idx == pos - 1

\* lines 107-110: an entry that is a directory gets label_map[directory] = idx
OuterDir ==
    /\ pc = "outer"
    /\ pos <= Len(listing)
    /\ isdir(listing[pos])
    /\ label_map' = (listing[pos] :> idx) @@ label_map
    /\ pending' = listdir(listing[pos])
    /\ pc' = "inner"
    /\ UNCHANGED <<fs_root, fs_cat, listing, pos, file_paths, labels,
                   num_classes, predicted_idx, exc, ret, propagated>>
    /\ UNCHANGED trainVars

\* lines 107-109: an entry that is not a directory is skipped; idx still advances
OuterSkip ==
    /\ pc = "outer"
    /\ pos <= Len(listing)
    /\ ~isdir(listing[pos])
    /\ pos' = pos + 1
    /\ UNCHANGED <<fs_root, fs_cat, pc, listing, pending, file_paths, labels,
                   label_map, num_classes, predicted_idx, exc, ret, propagated>>
    /\ UNCHANGED trainVars

\* lines 111-115: one entry of os.listdir(dir_path), in whatever order it lists
InnerStep ==
    /\ pc = "inner"
    /\ \E models \in pending :
        LET model_directory == join(listing[pos], models) IN
        /\ pending' = pending \ {models}
        /\ IF isfile(model_directory)
           THEN /\ file_paths' = Append(file_paths, model_directory)
                /\ labels' = Append(labels, idx)
           ELSE UNCHANGED <<file_paths, labels>>
    /\ UNCHANGED <<fs_root, fs_cat, pc, listing, pos, label_map,
                   num_classes, predicted_idx, exc, ret, propagated>>
    /\ UNCHANGED trainVars

\* line 111: the inner loop is exhausted, the outer loop moves on
InnerDone ==
    /\ pc = "inner"
    /\ pending = {}
    /\ pos' = pos + 1
    /\ pc' = "outer"
    /\ UNCHANGED <<fs_root, fs_cat, listing, pending, file_paths, labels,
                   label_map, num_classes, predicted_idx, exc, ret, propagated>>
    /\ UNCHANGED trainVars

\* line 116
LoadDataReturn ==
    /\ pc = "outer"
    /\ pos > Len(listing)
    /\ pc' = "loaded"
    /\ UNCHANGED <<fs_root, fs_cat, listing, pos, pending, file_paths, labels,
                   label_map, num_classes, predicted_idx, exc, ret, propagated>>
    /\ UNCHANGED trainVars

\* ----------------------------------------------------- predict_3d_model
\* line 475: ThreeDClassifier(num_classes=len(label_map))
BuildModel ==
    /\ pc = "loaded"
    /\ num_classes' = Cardinality(DOMAIN label_map)
    /\ pc' = "ready"
    /\ UNCHANGED <<fs_root, fs_cat, listing, pos, pending, file_paths, labels,
                   label_map, predicted_idx, exc, ret, propagated>>
    /\ UNCHANGED trainVars

\* list(label_map.keys()), list(label_map.values()): insertion order, which is
\* the sorted order of the directory names
keys(lm) == sorted(DOMAIN lm)

values(lm) == [i \in 1..Len(keys(lm)) |-> lm[keys(lm)[i]]]

\* list.index(v): the first position (0-based) of v; -1 stands for ValueError
index(s, v) == IF \E i \in 1..Len(s) : s[i] = v
               THEN SetMin({i \in 1..Len(s) : s[i] = v}) - 1
               ELSE -1

\* the class indices torch.max(outputs, 1) can return for fc3's num_classes
\* outputs; with no output at all the reduction raises
ClassIndices(n) == 0..(n - 1)

Catches_mesh_only(e) == e \in {"load", "sample"}

\* line 446: except Exception
Catches(e) == e \in {"load", "sample", "forward", "lookup"}

\* lines 431-448. fault is the step of the try block that the library makes
\* raise for this file_path ("none": the mesh loads, samples and runs), out is
\* the arg-max of the forward pass.
Predict ==
    /\ pc = "ready"
    /\ \E fault \in {"none", "load", "sample", "forward"},
          out \in ClassIndices(num_classes) \cup {0} :
        LET e == IF fault # "none" THEN fault
                 ELSE IF out \notin ClassIndices(num_classes) THEN "forward"
                 ELSE IF index(values(label_map), out) = -1 THEN "lookup"
                 ELSE "none"
        IN
        /\ exc' = e
        /\ predicted_idx' = IF e \in {"none", "lookup"} THEN out ELSE predicted_idx
        /\ IF e = "none"
           THEN /\ ret' = Some(keys(label_map)[index(values(label_map), out) + 1])
                /\ propagated' = FALSE
           ELSE /\ ret' = None
                /\ propagated' = ~Catches(e)
    /\ pc' = "predicted"
    /\ UNCHANGED <<fs_root, fs_cat, listing, pos, pending, file_paths, labels,
                   label_map, num_classes>>
    /\ UNCHANGED trainVars

\* ------------------------------------------------ checkpoints directory
FileNames == {"model_checkpoint.pth", "other.pth"}

\* float('inf') and the quotients total / len(loader), as numerator and
\* denominator
inf == <<1, 0>>

div(total, n) == <<total, n>>

\* a < b on these floats
Less(a, b) == a[1] * b[2] < b[1] * a[2]

Losses == 0..MaxLoss

\* os.path.join('./checkpoints', filename)
os_path_join(dir, filename) == <<dir, filename>>

Paths == {os_path_join(d, f) : d \in {"./checkpoints", "."}, f \in FileNames}

\* os.path.isfile(filepath): the notebook keeps checkpoints in ./checkpoints only
os_path_isfile(path) ==
    path[1] = "./checkpoints" /\ ckpt_dir /\ files[path[2]] # None

\* torch.save / torch.load: the pickled object and its unpickling
torch_save(obj) == [pickle |-> obj]

torch_load(bytes) == bytes.pickle

\* torch.optim.Adam(model.parameters()): no step taken yet
Adam == [step |-> 0]

\* a checkpoint left in ./checkpoints by an earlier run of the notebook
PriorCheckpoint == [epoch |-> 1, state_dict |-> 1, best_val_loss |-> div(1, 1),
                    optimizer |-> [step |-> 1]]

\* an empty root_dir, for the cells that do not read it
DataIdle ==
    InitDataVars([n \in Names |-> "absent"],
                 [n \in Names |-> [m \in Models |-> "absent"]])

\* the notebook before any of its cells ran: a fresh model (nn.Module starts in
\* training mode), and whatever ./checkpoints holds
InitTrainVars(dir, fls) ==
    /\ ckpt_dir = dir
    /\ files = fls
    /\ nwrites = 0
    /\ saved = [f \in FileNames |-> None]
    /\ params = 0
    /\ training = TRUE
    /\ grads = "unset"
    /\ optimizer = Adam
    /\ tpc = "idle"
    /\ calls = 0
    /\ num_epochs = 0
    /\ save_path = "model_checkpoint.pth"
    /\ n_train = 0
    /\ n_val = 0
    /\ epoch = 0
    /\ batch = 0
    /\ ops = <<>>
    /\ total_val_loss = 0
    /\ best_val_loss = inf
    /\ val_log = <<>>
    /\ filepath = os_path_join(".", "model_checkpoint.pth")
    /\ checkpoint = None
    /\ printed = ""

TrainIdle == InitTrainVars(FALSE, [f \in FileNames |-> None])

InitTrain ==
    /\ DataIdle
    /\ \E dir \in BOOLEAN,
          fls \in [FileNames -> {None, Some(torch_save(PriorCheckpoint))}] :
        /\ (\E f \in FileNames : fls[f] # None) => dir
        /\ InitTrainVars(dir, fls)

\* ------------------------------------------------------ save_checkpoint
\* lines 165-168
save_checkpoint(state, filename) ==
    /\ ckpt_dir' = TRUE
    /\ files' = [files EXCEPT ![filename] = Some(torch_save(state))]
    /\ nwrites' = nwrites + 1
    /\ saved' = [saved EXCEPT ![filename] = Some(state)]

\* ------------------------------------------------------ load_checkpoint
load_result_basename(path) ==
    IF ~ckpt_dir \/ files[path[2]] = None THEN None
    ELSE Some(torch_load(files[path[2]][1]))

\* lines 172-176: None on a miss, else the unpickled record
load_result(path) ==
    IF ~os_path_isfile(path) THEN None
    ELSE Some(torch_load(files[path[2]][1]))

loaded_optimizer_skipped(ck, with_optimizer) == optimizer

\* lines 179-180: if optimizer: optimizer.load_state_dict(checkpoint['optimizer'])
loaded_optimizer(ck, with_optimizer) ==
    IF with_optimizer THEN ck.optimizer ELSE optimizer

\* lines 170-183: load_checkpoint(path, model, optimizer), or
\* load_checkpoint(path, model) when with_optimizer is FALSE
LoadCheckpointOp(path, with_optimizer) ==
    /\ tpc \in {"idle", "returned", "raised"}
    /\ calls < MaxCalls
    /\ LET r == load_result(path) IN
        /\ filepath' = path
        /\ checkpoint' = r
        /\ IF r = None
           THEN /\ printed' = "No checkpoint found"
                /\ UNCHANGED <<params, optimizer>>
           ELSE /\ printed' = "Loaded checkpoint"
                /\ params' = r[1].state_dict
                /\ optimizer' = loaded_optimizer(r[1], with_optimizer)
    /\ calls' = calls + 1
    /\ UNCHANGED <<ckpt_dir, files, nwrites, saved, training, grads, tpc,
                   num_epochs, save_path, n_train, n_val, epoch, batch, ops,
                   total_val_loss, best_val_loss, val_log>>
    /\ UNCHANGED dataVars

LoadCheckpoint ==
    \E path \in Paths, with_optimizer \in BOOLEAN :
        LoadCheckpointOp(path, with_optimizer)

\* lines 475-477: a new model and a new optimizer
NewModelCell ==
    /\ tpc \in {"idle", "returned", "raised"}
    /\ calls < MaxCalls
    /\ params' = 0
    /\ training' = TRUE
    /\ grads' = "unset"
    /\ optimizer' = Adam
    /\ calls' = calls + 1
    /\ UNCHANGED <<ckpt_dir, files, nwrites, saved, tpc, num_epochs, save_path,
                   n_train, n_val, epoch, batch, ops, total_val_loss,
                   best_val_loss, val_log, filepath, checkpoint, printed>>
    /\ UNCHANGED dataVars

\* ---------------------------------------------------------- train_model
\* lines 199-202
TrainModelCall ==
    /\ tpc = "idle"
    /\ calls < MaxCalls
    /\ \E ne \in 0..MaxEpochs, sp \in FileNames,
          nt \in 0..MaxBatches, nv \in 0..MaxBatches :
        /\ num_epochs' = ne
        /\ save_path' = sp
        /\ n_train' = nt
        /\ n_val' = nv
    /\ optimizer' = Adam
    /\ best_val_loss' = inf
    /\ epoch' = 0
    /\ val_log' = <<>>
    /\ tpc' = "for"
    /\ calls' = calls + 1
    /\ UNCHANGED <<ckpt_dir, files, nwrites, saved, params, training, grads,
                   batch, ops, total_val_loss, filepath, checkpoint, printed>>
    /\ UNCHANGED dataVars

\* lines 204-206: the next epoch starts with model.train()
ForEpoch ==
    /\ tpc = "for"
    /\ epoch < num_epochs
    /\ training' = TRUE
    /\ batch' = 0
    /\ ops' = <<>>
    /\ tpc' = "train_loop"
    /\ UNCHANGED <<ckpt_dir, files, nwrites, saved, params, grads, optimizer,
                   calls, num_epochs, save_path, n_train, n_val, epoch,
                   total_val_loss, best_val_loss, val_log, filepath, checkpoint,
                   printed>>
    /\ UNCHANGED dataVars

\* line 204: range(num_epochs) is exhausted and train_model returns
ForExit ==
    /\ tpc = "for"
    /\ epoch >= num_epochs
    /\ tpc' = "returned"
    /\ UNCHANGED <<ckpt_dir, files, nwrites, saved, params, training, grads,
                   optimizer, calls, num_epochs, save_path, n_train, n_val,
                   epoch, batch, ops, total_val_loss, best_val_loss, val_log,
                   filepath, checkpoint, printed>>
    /\ UNCHANGED dataVars

\* lines 208-210: the next training batch, optimizer.zero_grad()
ZeroGrad ==
    /\ tpc = "train_loop"
    /\ batch < n_train
    /\ grads' = "cleared"
    /\ ops' = <<"zero_grad">>
    /\ tpc' = "forward"
    /\ UNCHANGED <<ckpt_dir, files, nwrites, saved, params, training, optimizer,
                   calls, num_epochs, save_path, n_train, n_val, epoch, batch,
                   total_val_loss, best_val_loss, val_log, filepath, checkpoint,
                   printed>>
    /\ UNCHANGED dataVars

\* lines 211-212: outputs = model(points); loss = criterion(outputs, labels)
Forward ==
    /\ tpc = "forward"
    /\ ops' = Append(ops, "forward")
    /\ tpc' = "backward"
    /\ UNCHANGED <<ckpt_dir, files, nwrites, saved, params, training, grads,
                   optimizer, calls, num_epochs, save_path, n_train, n_val,
                   epoch, batch, total_val_loss, best_val_loss, val_log,
                   filepath, checkpoint, printed>>
    /\ UNCHANGED dataVars

\* line 213: loss.backward()
Backward ==
    /\ tpc = "backward"
    /\ grads' = "computed"
    /\ ops' = Append(ops, "backward")
    /\ tpc' = "step"
    /\ UNCHANGED <<ckpt_dir, files, nwrites, saved, params, training, optimizer,
                   calls, num_epochs, save_path, n_train, n_val, epoch, batch,
                   total_val_loss, best_val_loss, val_log, filepath, checkpoint,
                   printed>>
    /\ UNCHANGED dataVars

\* lines 214-215: optimizer.step() moves the parameters and the optimizer state
Step ==
    /\ tpc = "step"
    /\ params' = params + 1
    /\ optimizer' = [step |-> optimizer.step + 1]
    /\ ops' = Append(ops, "step")
    /\ batch' = batch + 1
    /\ tpc' = "train_loop"
    /\ UNCHANGED <<ckpt_dir, files, nwrites, saved, training, grads, calls,
                   num_epochs, save_path, n_train, n_val, epoch, total_val_loss,
                   best_val_loss, val_log, filepath, checkpoint, printed>>
    /\ UNCHANGED dataVars

StartValidation_no_eval ==
    /\ tpc = "train_loop"
    /\ batch >= n_train
    /\ total_val_loss' = 0
    /\ batch' = 0
    /\ tpc' = "val_loop"
    /\ UNCHANGED <<ckpt_dir, files, nwrites, saved, params, training, grads,
                   optimizer, calls, num_epochs, save_path, n_train, n_val,
                   epoch, ops, best_val_loss, val_log, filepath, checkpoint,
                   printed>>
    /\ UNCHANGED dataVars

\* lines 218-220: the training batches are exhausted; model.eval()
StartValidation ==
    /\ tpc = "train_loop"
    /\ batch >= n_train
    /\ training' = FALSE
    /\ total_val_loss' = 0
    /\ batch' = 0
    /\ tpc' = "val_loop"
    /\ UNCHANGED <<ckpt_dir, files, nwrites, saved, params, grads, optimizer,
                   calls, num_epochs, save_path, n_train, n_val, epoch, ops,
                   best_val_loss, val_log, filepath, checkpoint, printed>>
    /\ UNCHANGED dataVars

\* lines 221-225: one validation batch under torch.no_grad()
ValBatch ==
    /\ tpc = "val_loop"
    /\ batch < n_val
    /\ \E loss \in Losses : total_val_loss' = total_val_loss + loss
    /\ batch' = batch + 1
    /\ UNCHANGED <<ckpt_dir, files, nwrites, saved, params, training, grads,
                   optimizer, tpc, calls, num_epochs, save_path, n_train, n_val,
                   epoch, ops, best_val_loss, val_log, filepath, checkpoint,
                   printed>>
    /\ UNCHANGED dataVars

\* lines 227 and 230: total_val_loss / len(val_loader) and
\* total_train_loss / len(train_loader) divide by zero on an empty loader
EpochEndRaise ==
    /\ tpc = "val_loop"
    /\ batch >= n_val
    /\ n_val = 0 \/ n_train = 0
    /\ tpc' = "raised"
    /\ UNCHANGED <<ckpt_dir, files, nwrites, saved, params, training, grads,
                   optimizer, calls, num_epochs, save_path, n_train, n_val,
                   epoch, batch, ops, total_val_loss, best_val_loss, val_log,
                   filepath, checkpoint, printed>>
    /\ UNCHANGED dataVars

average_val_loss == div(total_val_loss, n_val)

improved_or_equal(avg, best) == ~Less(best, avg)

improved_always(avg, best) == TRUE

\* line 233: average_val_loss < best_val_loss
improved(avg, best) == Less(avg, best)

checkpoint_state_stale_epoch(e, sd, best, opt) ==
    [epoch |-> e, state_dict |-> sd, best_val_loss |-> best, optimizer |-> opt]

\* lines 237-242: the record handed to save_checkpoint
checkpoint_state(e, sd, best, opt) ==
    [epoch |-> e + 1, state_dict |-> sd, best_val_loss |-> best, optimizer |-> opt]

\* lines 227-242: the validation loss improved, the checkpoint is written
EpochEndSave ==
    /\ tpc = "val_loop"
    /\ batch >= n_val
    /\ n_val # 0 /\ n_train # 0
    /\ improved(average_val_loss, best_val_loss)
    /\ val_log' = Append(val_log, average_val_loss)
    /\ best_val_loss' = average_val_loss
    /\ save_checkpoint(checkpoint_state(epoch, params, average_val_loss, optimizer),
                       save_path)
    /\ epoch' = epoch + 1
    /\ tpc' = "for"
    /\ UNCHANGED <<params, training, grads, optimizer, calls, num_epochs,
                   save_path, n_train, n_val, batch, ops, total_val_loss,
                   filepath, checkpoint, printed>>
    /\ UNCHANGED dataVars

\* lines 227-233: the validation loss did not improve
EpochEndKeep ==
    /\ tpc = "val_loop"
    /\ batch >= n_val
    /\ n_val # 0 /\ n_train # 0
    /\ ~improved(average_val_loss, best_val_loss)
    /\ val_log' = Append(val_log, average_val_loss)
    /\ epoch' = epoch + 1
    /\ tpc' = "for"
    /\ UNCHANGED <<ckpt_dir, files, nwrites, saved, params, training, grads,
                   optimizer, calls, num_epochs, save_path, n_train, n_val,
                   batch, ops, total_val_loss, best_val_loss, filepath,
                   checkpoint, printed>>
    /\ UNCHANGED dataVars

NextTrain ==
    \/ LoadCheckpoint
    \/ NewModelCell
    \/ TrainModelCall
    \/ ForEpoch
    \/ ForExit
    \/ ZeroGrad
    \/ Forward
    \/ Backward
    \/ Step
    \/ StartValidation
    \/ ValBatch
    \/ EpochEndRaise
    \/ EpochEndSave
    \/ EpochEndKeep

SpecTrain == InitTrain /\ [][NextTrain]_vars

NextData ==
    \/ LoadDataCall
    \/ OuterDir
    \/ OuterSkip
    \/ InnerStep
    \/ InnerDone
    \/ LoadDataReturn
    \/ BuildModel
    \/ Predict

InitData ==
    /\ \E t \in Trees : InitDataVars(t.root, t.cat)
    /\ TrainIdle

Spec == InitData /\ [][NextData]_vars

\* ---------------------------------------------------------------- claims
CategoryDirs == {n \in Names : fs_root[n] = "dir"}

\* C1: the label_map load_data returns gives every category directory exactly
\* one index, gives no two directories the same index, and has no key that is
\* not a directory of root_dir.
C1_LabelMapBijection ==
    pc \in {"loaded", "ready", "predicted"} =>
        /\ DOMAIN label_map = CategoryDirs
        /\ \A a, b \in DOMAIN label_map : label_map[a] = label_map[b] => a = b

\* load_data has returned for a root with two category directories and an
\* entry that is not a directory.
C1_Witness ==
    /\ pc = "loaded"
    /\ Cardinality(DOMAIN label_map) >= 2
    /\ \E n \in Names : fs_root[n] = "file"

\* C2: load_checkpoint on a filepath that is not an existing file prints the
\* miss, returns None, and leaves the model parameters, the optimizer state and
\* everything else of the model and the checkpoint directory as they were.
C2_MissIsNoOp ==
    [][(LoadCheckpoint /\ ~os_path_isfile(filepath')) =>
          /\ checkpoint' = None
          /\ printed' = "No checkpoint found"
          /\ params' = params
          /\ optimizer' = optimizer
          /\ UNCHANGED <<training, grads, ckpt_dir, files>>]_vars

\* load_checkpoint missed on a trained model, next to a checkpoint directory
\* that holds a file of the same name.
C2_Witness ==
    /\ printed = "No checkpoint found"
    /\ checkpoint = None
    /\ ~os_path_isfile(filepath)
    /\ ckpt_dir /\ files[filepath[2]] # None
    /\ params > 0
    /\ optimizer.step > 0

\* C3: whichever step of predict_3d_model's try block raises (mesh load,
\* sampling, forward pass, label lookup), the call returns None and no
\* exception leaves it.
C3_ExceptionsCaught ==
    (pc = "predicted" /\ exc # "none") => (ret = None /\ ~propagated)

\* the label lookup raised (an arg-max that is no value of label_map) and the
\* call returned None.
C3_Witness ==
    pc = "predicted" /\ exc = "lookup" /\ ret = None /\ ~propagated

CheckpointFields == {"epoch", "state_dict", "best_val_loss", "optimizer"}

\* C4: a checkpoint written by train_model is a record with exactly the fields
\* epoch, state_dict, best_val_loss and optimizer; epoch is the 1-based number
\* of the epoch that wrote it, state_dict and optimizer are the model
\* parameters and optimizer state at the end of that epoch, and best_val_loss
\* is that epoch's average validation loss.
C4_CheckpointSnapshot ==
    [][nwrites' # nwrites =>
          /\ os_path_isfile(os_path_join("./checkpoints", save_path))'
          /\ LET r == torch_load(files'[save_path][1]) IN
              /\ DOMAIN r = CheckpointFields
              /\ r.epoch = Len(val_log')
              /\ r.state_dict = params'
              /\ r.optimizer = optimizer'
              /\ r.best_val_loss = val_log'[Len(val_log')]]_vars

\* the second epoch of a call wrote the checkpoint, after the first one did.
C4_Witness ==
    /\ nwrites = 2
    /\ Len(val_log) = 2
    /\ torch_load(files[save_path][1]).epoch = 2

ModelFiles ==
    {p \in Names \X Models : fs_root[p[1]] = "dir" /\ fs_cat[p[1]][p[2]] = "model"}

\* C6: file_paths holds exactly the existing files of the shape
\* <root>/<category_dir>/<model_dir>/models/model_normalized.obj, labels is as
\* long as file_paths, and labels[i] is label_map of the category directory
\* of file_paths[i].
C6_Layout ==
    pc \in {"loaded", "ready", "predicted"} =>
        /\ Range(file_paths) = ModelFiles
        /\ Len(file_paths) = Len(labels)
        /\ \A i \in 1..Len(file_paths) :
              /\ file_paths[i][1] \in DOMAIN label_map
              /\ labels[i] = label_map[file_paths[i][1]]

\* load_data has returned the model files of two categories and skipped an
\* entry of a third category directory that holds no model file.
C6_Witness ==
    /\ pc = "loaded"
    /\ \E i, j \in 1..Len(file_paths) : file_paths[i][1] # file_paths[j][1]
    /\ \E n \in Names, m \in Models : fs_root[n] = "dir" /\ fs_cat[n][m] = "other"

\* C7: without an exception predict_3d_model returns the key of label_map
\* whose index is the arg-max class index, and every class index
\* 0..num_classes-1 of the model built with num_classes = len(label_map) has
\* such a key.
C7_PredictedLabel ==
    /\ (pc = "predicted" /\ exc = "none") =>
          /\ ret # None
          /\ ret[1] \in DOMAIN label_map
          /\ label_map[ret[1]] = predicted_idx
    /\ pc \in {"ready", "predicted"} =>
          \A i \in ClassIndices(num_classes) :
              \E k \in DOMAIN label_map : label_map[k] = i

InEpochs == tpc \in {"for", "train_loop", "forward", "backward", "step", "val_loop"}

EpochEnds == tpc = "val_loop" /\ tpc' = "for"

EarliestBest ==
    CHOOSE e \in 1..Len(val_log) :
        /\ \A j \in 1..Len(val_log) : ~Less(val_log[j], val_log[e])
        /\ \A j \in 1..(e - 1) : Less(val_log[e], val_log[j])

C10_Modes ==
    [][InEpochs =>
          /\ tpc \in {"forward", "backward", "step"} => training
          /\ (tpc = "train_loop" /\ tpc' = "forward") => training
          /\ tpc = "val_loop" => ~training /\ params' = params /\ optimizer' = optimizer
          /\ (params' # params \/ optimizer' # optimizer) =>
                /\ tpc = "step"
                /\ training
                /\ ops' = <<"zero_grad", "forward", "backward", "step">>
                /\ batch' = batch + 1
          /\ (tpc' = "train_loop" /\ batch' > 0) =>
                ops' = <<"zero_grad", "forward", "backward", "step">>
          /\ (tpc' = "returned" /\ num_epochs >= 1) => ~training']_vars

\* the second epoch's validation pass has processed a batch, in evaluation
\* mode, after both epochs trained.
C10_Witness ==
    /\ tpc = "val_loop"
    /\ epoch = 1
    /\ batch >= 1
    /\ ~training
    /\ params >= 2

\* C11: for every listing of root_dir, entries that are not directories
\* included, every label load_data returns and every value of label_map lies
\* in 0..len(label_map)-1, the class indices of the model built with
\* num_classes = len(label_map).
C11_ValidClassIndices ==
    pc \in {"loaded", "ready", "predicted"} =>
        LET n == Cardinality(DOMAIN label_map) IN
        /\ \A k \in DOMAIN label_map : label_map[k] \in ClassIndices(n)
        /\ \A i \in 1..Len(labels) : labels[i] \in ClassIndices(n)
====
